---- MODULE Spec2Model ----
(***************************************************************************)
(* A model of berny/berny.py: the Berny generator (one relaxation run) and *)
(* the functions it calls: update_hessian, update_trust, linear_search,    *)
(* quadratic_step and converged.                                           *)
(*                                                                         *)
(* The run is modelled for a molecule with one Cartesian degree of freedom *)
(* and one internal coordinate, so vectors of internal coordinates are     *)
(* scalars and the Hessian is a 1x1 matrix.  Floating-point numbers are    *)
(* extended rationals n/d: d > 0 is a finite number in lowest terms,       *)
(* 1/0 and -1/0 are +inf and -inf, 0/0 is NaN.  Rounding is not modelled.  *)
(***************************************************************************)
EXTENDS Integers, Sequences, FiniteSets, TLC

\* ---------------------------------------------------------------- bounds

\* largest step budget params['maxsteps'] a run is started with
MaxSteps == 2
\* largest magnitude of the integers the function harness draws its inputs from
MaxVal == 2

\* ------------------------------------------------- floating-point values

Abs(i) == IF i < 0 THEN -i ELSE i

Sgn(i) == IF i > 0 THEN 1 ELSE IF i < 0 THEN -1 ELSE 0

RECURSIVE GCD(_, _)
GCD(a, b) == IF b = 0 THEN a ELSE GCD(b, a % b)

\* the float n/d, in lowest terms with d >= 0
Rat(n, d) ==
    IF d = 0 THEN [n |-> Sgn(n), d |-> 0]
    ELSE LET g == GCD(Abs(n), Abs(d))
         IN  [n |-> Sgn(d) * (n \div g), d |-> Abs(d) \div g]

Num(i) == Rat(i, 1)

Zero == Num(0)

One == Num(1)

NaN == [n |-> 0, d |-> 0]

Inf == [n |-> 1, d |-> 0]

\* Python's None where a float is expected (PESPoint fields, fit results)
None == [n |-> 0, d |-> -1]

IsNaN(a) == a.d = 0 /\ a.n = 0

IsFinite(a) == a.d > 0

RNeg(a) == [n |-> -a.n, d |-> a.d]

RAbs(a) == [n |-> Abs(a.n), d |-> a.d]

\* a + b: inf + inf = inf, inf + (-inf) = NaN, NaN + x = NaN
RAdd(a, b) ==
    IF a.d = 0 /\ b.d = 0 THEN (IF a.n = b.n THEN a ELSE NaN)
    ELSE Rat(a.n * b.d + b.n * a.d, a.d * b.d)

RSub(a, b) == RAdd(a, RNeg(b))

\* a * b: inf * 0 = NaN
RMul(a, b) == Rat(a.n * b.n, a.d * b.d)

\* a / b as numpy divides floats: x/0 = +-inf, 0/0 = NaN, no exception
RDiv(a, b) ==
    IF b.d > 0 /\ b.n = 0 THEN [n |-> Sgn(a.n), d |-> 0]
    ELSE Rat(a.n * b.d * Sgn(b.n), a.d * Abs(b.n))

\* a < b: false when either is NaN
RLt(a, b) ==
    /\ ~IsNaN(a)
    /\ ~IsNaN(b)
    /\ IF a.d = 0 /\ b.d = 0 THEN a.n < b.n ELSE a.n * b.d < b.n * a.d

RGt(a, b) == RLt(b, a)

\* a == b: false when either is NaN
REq(a, b) == ~IsNaN(a) /\ ~IsNaN(b) /\ a = b

\* a <= b
RLe(a, b) == RLt(a, b) \/ REq(a, b)

\* a != b: true when either is NaN
RNe(a, b) == ~REq(a, b)

\* numpy.linalg.norm of a vector with one component
norm(dq) == RAbs(dq)

\* abs(x) < 1e-10: every non-zero difference of two model values is far
\* larger than 1e-10, so the test passes exactly when the difference is 0
BelowTolerance(x) == IsFinite(x) /\ x.n = 0

\* --------------------------------------------------------------- PESPoint

PESPoint(q, E, g) == [q |-> q, E |-> E, g |-> g]

NonePoint == PESPoint(None, None, None)

\* ---------------------------------------------------------- update_hessian

\* the matrix update_hessian leaves in H: H + dH, dH the BFGS update
update_hessian(H, dq, dg) ==
    LET dH == RSub(RDiv(RMul(dg, dg), RMul(dq, dg)),
                   RDiv(RMul(RMul(H, RMul(dq, dq)), H),
                        RMul(RMul(dq, H), dq)))
    IN  RAdd(H, dH)

\* ------------------------------------------------------------ update_trust

update_trust(trust, dE, dE_predicted, dq) ==
    LET r == IF RNe(dE, Zero) THEN RDiv(dE, dE_predicted) ELSE One
    IN  IF RLt(r, Rat(1, 4)) THEN RDiv(norm(dq), Num(4))
        ELSE IF RGt(r, Rat(3, 4)) /\ BelowTolerance(RSub(norm(dq), trust))
             THEN RMul(Num(2), trust)
        ELSE trust

\* ----------------------------------------------------------- linear_search

\* a result of Math.fit_quartic or Math.fit_cubic: (None, None) or (t, E)
Fit(t, E) == [t |-> t, E |-> E]

NoFit == Fit(None, None)

\* linear_search with the tie of the fallback given to the best point
linear_search_tie(E0, E1, g0, g1, quartic, cubic) ==
    IF quartic.t = None \/ RLt(quartic.t, Num(-1)) \/ RGt(quartic.t, Num(2))
    THEN IF cubic.t = None \/ RLt(cubic.t, Zero) \/ RGt(cubic.t, One)
         THEN IF RLt(E0, E1)
              THEN [t |-> Zero, E |-> E0, msg |-> "staying in new point"]
              ELSE [t |-> One, E |-> E1, msg |-> "returning to best point"]
         ELSE [t |-> cubic.t, E |-> cubic.E, msg |-> "Cubic interpolation"]
    ELSE [t |-> quartic.t, E |-> quartic.E, msg |-> "Quartic interpolation"]

\* quartic and cubic are what Math.fit_quartic and Math.fit_cubic return for
\* (E0, E1, g0, g1); the cubic fit is called only on the branch that reads it
linear_search(E0, E1, g0, g1, quartic, cubic) ==
    IF quartic.t = None \/ RLt(quartic.t, Num(-1)) \/ RGt(quartic.t, Num(2))
    THEN IF cubic.t = None \/ RLt(cubic.t, Zero) \/ RGt(cubic.t, One)
         THEN IF RLe(E0, E1)
              THEN [t |-> Zero, E |-> E0, msg |-> "staying in new point"]
              ELSE [t |-> One, E |-> E1, msg |-> "returning to best point"]
         ELSE [t |-> cubic.t, E |-> cubic.E, msg |-> "Cubic interpolation"]
    ELSE [t |-> quartic.t, E |-> quartic.E, msg |-> "Quartic interpolation"]

\* ---------------------------------------------------------- quadratic_step

\* What numpy.linalg.eigh returns for the RFO matrix [[H, g], [g, 0]]: the
\* eigenvector (v1, v2) of the lowest eigenvalue; info # 0 is LAPACK failing
\* (LinAlgError), and v1 = v2 = 0 stands for an eigenvector of NaNs.
Eigh(v1, v2, info) == [v1 |-> v1, v2 |-> v2, info |-> info]

EighResults ==
    { Eigh(0, 1, 0), Eigh(1, 0, 0), Eigh(1, 2, 0), Eigh(-1, 2, 0),
      Eigh(2, 1, 0), Eigh(-2, 1, 0), Eigh(0, 0, 0), Eigh(0, 0, 1) }

\* V is a result eigh can give for [[H, g], [g, 0]].  The lowest eigenvalue
\* is l = (H - sqrt(H*H + 4*g*g))/2 and its eigenvector satisfies
\* g*v1 = l*v2: for g # 0, l < 0 and v1/v2 has the sign of -g; for g = 0
\* the matrix is diagonal and the eigenvector is a unit vector.  A matrix
\* with a NaN or an infinite entry makes LAPACK fail or return NaNs.
IsLowestEigvec(H, g, V) ==
    IF ~IsFinite(H) \/ ~IsFinite(g) THEN V.v1 = 0 /\ V.v2 = 0
    ELSE /\ V.info = 0
         /\ IF g.n # 0 THEN V.v1 * V.v2 * Sgn(g.n) < 0
            ELSE IF H.n > 0 THEN V.v1 = 0 /\ V.v2 # 0
            ELSE IF H.n < 0 THEN V.v1 # 0 /\ V.v2 = 0
            ELSE V.v1 # 0 \/ V.v2 # 0

\* Math.findroot(steplength, ev[0]) for steplength(l) = |g/(l - H)| - trust:
\* the root below the lowest eigenvalue H is l = H - |g|/trust; there is
\* none when g = 0, when trust is not positive or when a value is not finite
findroot(g, H, trust) ==
    IF IsFinite(g) /\ g.n # 0 /\ IsFinite(H) /\ IsFinite(trust) /\ trust.n > 0
    THEN [ok |-> TRUE, l |-> RSub(H, RDiv(RAbs(g), trust))]
    ELSE [ok |-> FALSE, l |-> NaN]

quadratic_step(g, H, w, trust, V) ==
    LET rfo_dq == RDiv(Num(V.v1), Num(V.v2))
        pure == RLe(norm(rfo_dq), trust)
        root == findroot(g, H, trust)
        dq == IF pure THEN rfo_dq ELSE RDiv(g, RSub(root.l, H))
        dE == RAdd(RMul(g, dq), RMul(Rat(1, 2), RMul(RMul(dq, H), dq)))
    IN  IF V.info # 0
        THEN [exc |-> "LinAlgError", dq |-> NaN, dE |-> NaN, on_sphere |-> FALSE]
        ELSE IF ~pure /\ ~root.ok
        THEN [exc |-> "RootFindFailure", dq |-> NaN, dE |-> NaN,
              on_sphere |-> FALSE]
        ELSE [exc |-> "", dq |-> dq, dE |-> dE, on_sphere |-> FALSE]

\* --------------------------------------------------------------- converged

\* Math.rms of a vector with one component
rms(v) == RAbs(v[1])

\* np.max(abs(v)) of a vector with one component
max_abs(v) == RAbs(v[1])

\* the list of criteria converged builds before its loop
criteria(forces, step, on_sphere, params) ==
    << <<"Gradient RMS", rms(forces), params.gradientrms>>,
       <<"Gradient maximum", max_abs(forces), params.gradientmax>> >>
    \o (IF on_sphere
        THEN << <<"Minimization on sphere", FALSE>> >>
        ELSE << <<"Step RMS", rms(step), params.steprms>>,
                <<"Step maximum", max_abs(step), params.stepmax>> >>)

\* the loop of converged with <= in place of <
RECURSIVE converged_loop_le(_, _, _)
converged_loop_le(crits, i, all_matched) ==
    IF i > Len(crits) THEN [exc |-> "", ret |-> all_matched]
    ELSE LET crit == crits[i]
         IN  IF Len(crit) > 2
             THEN converged_loop_le(crits, i + 1,
                                    all_matched /\ RLe(crit[2], crit[3]))
             ELSE IF Len(crit) < 3
             THEN [exc |-> "IndexError", ret |-> FALSE]
             ELSE converged_loop_le(crits, i + 1, all_matched /\ crit[3])

\* the loop of converged from its i-th criterion on; Python's crit[1] and
\* crit[2] are crit[2] and crit[3] here, and crit[2] of a tuple of two is
\* an IndexError
RECURSIVE converged_loop(_, _, _)
converged_loop(crits, i, all_matched) ==
    IF i > Len(crits) THEN [exc |-> "", ret |-> all_matched]
    ELSE LET crit == crits[i]
         IN  IF Len(crit) > 2
             THEN converged_loop(crits, i + 1,
                                 all_matched /\ RLt(crit[2], crit[3]))
             ELSE IF Len(crit) < 3
             THEN [exc |-> "IndexError", ret |-> FALSE]
             ELSE converged_loop(crits, i + 1, all_matched /\ crit[3])

converged(forces, step, on_sphere, params) ==
    converged_loop(criteria(forces, step, on_sphere, params), 1, TRUE)

\* -------------------------------------------------------------------- state

VARIABLES
    params,       \* the options of the run: defaults overridden by the caller
    pc,           \* where the generator stands: "yield_geom" (line 43),
                  \* "yield" (line 44), "exhausted" (break, line 48),
                  \* "converged" (break, line 98), "raised" (an exception)
    exc,          \* the exception that ended the run, "" when none
    nsteps, trust, hessian, debug, geom,
    energy, gradients,
    current, best, previous, predicted, interpolated, future,
    evaluated,    \* history: the points built from the evaluations so far
    call          \* the function harness: the last call and its result

engine == <<nsteps, trust, hessian, debug, geom, current, best, previous,
            predicted, interpolated, future, evaluated>>

run == <<params, pc, exc, energy, gradients, engine>>

vars == <<run, call>>

\* ------------------------------------------- collaborators (not in berny.py)

\* Cartesian degrees of freedom of the molecule
NDof == 1

\* coords.hessian_guess(geom)
hessian_guess == One

\* coords.weights(geom)
weights == One

\* coords.B_matrix(geom): the coordinate is the Cartesian coordinate itself
B_matrix == One

\* Math.ginv(B)
ginv(B) == RDiv(One, B)

\* coords.eval_geom(geom)
eval_geom(g) == g

\* coords.update_geom(geom, q, dq, B_inv): the new geometry and its q
update_geom(g, q, dq, B_inv) == [geom |-> RAdd(g, RMul(B_inv, dq)),
                                 q |-> RAdd(q, dq)]

\* -------------------------------------------------------------------- inputs

\* the convergence thresholds a run is started with: none that can be met,
\* or the defaults in units of 1.2e-3
Thresholds ==
    { [gradientmax |-> Zero, gradientrms |-> Zero,
       stepmax |-> Zero, steprms |-> Zero],
      [gradientmax |-> Rat(3, 8), gradientrms |-> Rat(1, 4),
       stepmax |-> Rat(3, 2), steprms |-> One] }

\* an evaluation the driver sends: (energy, gradients)
Evaluation(e, g) == [energy |-> e, gradients |-> g]

\* the evaluations a driver sends: finite energies with a gradient of one
\* component, and three that are not valid: an energy that is not a number,
\* a gradient that is not a number, a gradient of two components
Evaluations ==
    { Evaluation(e, <<g>>) : e \in {Zero, One}, g \in {Num(-1), Zero, One} }
    \cup { Evaluation(NaN, <<Num(-1)>>), Evaluation(Zero, <<NaN>>),
           Evaluation(Zero, <<One, One>>) }

\* results of Math.fit_quartic and Math.fit_cubic within a run
RunFits == { NoFit, Fit(Rat(1, 2), Zero), Fit(Num(2), Num(-1)) }

\* the fits are called from linear_search only, after the first iteration
FitsOf(n) == IF n > 1 THEN RunFits ELSE {NoFit}

\* ---------------------------------------------------------------------- run

NoCall == [op |-> "none"]

\* lines 32-41: the state at the first yield
Init ==
    /\ params \in { [maxsteps |-> m, trust |-> One, debug |-> d,
                     gradientmax |-> th.gradientmax,
                     gradientrms |-> th.gradientrms,
                     stepmax |-> th.stepmax, steprms |-> th.steprms] :
                    m \in 0..MaxSteps, d \in BOOLEAN, th \in Thresholds }
    /\ pc = "yield_geom"
    /\ exc = ""
    /\ nsteps = 0
    /\ trust = params.trust
    /\ hessian = hessian_guess
    /\ debug = <<>>
    /\ geom = Zero
    /\ energy = None
    /\ gradients = <<>>
    /\ current = NonePoint
    /\ best = NonePoint
    /\ previous = NonePoint
    /\ predicted = NonePoint
    /\ interpolated = NonePoint
    /\ future = NonePoint
    /\ evaluated = <<>>
    /\ call = NoCall

\* line 43: the driver sends (energy, gradients); the generator stops at the
\* bare yield of line 44
Send ==
    /\ pc = "yield_geom"
    /\ \E ev \in Evaluations :
         /\ energy' = ev.energy
         /\ gradients' = ev.gradients
    /\ pc' = "yield"
    /\ UNCHANGED <<params, exc, engine, call>>

\* the test of line 47 with >= in place of >
OverBudget_ge(n, maxsteps) == n >= maxsteps

\* the test of line 47 letting one more iteration through
OverBudget_late(n, maxsteps) == n > maxsteps + 1

\* line 47: the test that leaves the loop
OverBudget(n, maxsteps) == n > maxsteps

\* lines 45-48: the counter passes the budget and the loop is left
Exhaust ==
    /\ pc = "yield"
    /\ OverBudget(nsteps + 1, params.maxsteps)
    /\ nsteps' = nsteps + 1
    /\ pc' = "exhausted"
    /\ UNCHANGED <<params, exc, energy, gradients, trust, hessian, debug, geom,
                   current, best, previous, predicted, interpolated, future,
                   evaluated, call>>

\* lines 99-101: the best point after a call that goes on
NewBest(n, cur, old) ==
    IF n = 1 \/ RLt(cur.E, old.E) THEN cur ELSE old

\* lines 57-64: the Hessian and the trust radius the rest of the call uses
HessianOf(n, H, cur, bst) ==
    IF n > 1 THEN update_hessian(H, RSub(cur.q, bst.q), RSub(cur.g, bst.g))
    ELSE H

\* the trust radius left alone in the second iteration too
TrustOf_late(n, tr, cur, prev, pred, interp) ==
    IF n > 2
    THEN update_trust(tr, RSub(cur.E, prev.E), RSub(pred.E, interp.E),
                      RSub(pred.q, interp.q))
    ELSE tr

TrustOf(n, tr, cur, prev, pred, interp) ==
    IF n > 1
    THEN update_trust(tr, RSub(cur.E, prev.E), RSub(pred.E, interp.E),
                      RSub(pred.q, interp.q))
    ELSE tr

\* lines 65-71: the point the quadratic step starts from
InterpolatedOf(n, cur, bst, quartic, cubic) ==
    IF n > 1
    THEN LET dq == RSub(bst.q, cur.q)
             ls == linear_search(cur.E, bst.E, RMul(cur.g, dq),
                                 RMul(bst.g, dq), quartic, cubic)
         IN  PESPoint(RAdd(cur.q, RMul(ls.t, dq)), ls.E,
                      RAdd(RMul(ls.t, bst.g),
                           RMul(RSub(One, ls.t), cur.g)))
    ELSE cur

\* lines 45-101: one iteration within the budget
Iterate ==
    /\ pc = "yield"
    /\ ~OverBudget(nsteps + 1, params.maxsteps)
    /\ nsteps' = nsteps + 1
    /\ UNCHANGED <<params, energy, gradients, call>>
    /\ IF Len(gradients) # NDof
       THEN \* line 55: dot of a 1x1 matrix and a longer vector
            /\ pc' = "raised"
            /\ exc' = "ValueError"
            /\ UNCHANGED <<trust, hessian, debug, geom, current, best,
                           previous, predicted, interpolated, future,
                           evaluated>>
       ELSE \E quartic \in FitsOf(nsteps'), cubic \in FitsOf(nsteps') :
            \* each name is bound to the value the code assigns to it
            \E B \in {B_matrix} :
            \E B_inv \in {ginv(B)} :
            \E cur \in {PESPoint(eval_geom(geom), energy,
                                 RMul(B_inv, gradients[1]))} :
            \E H \in {HessianOf(nsteps', hessian, cur, best)} :
            \E tr \in {TrustOf(nsteps', trust, cur, previous, predicted,
                               interpolated)} :
            \E interp \in {InterpolatedOf(nsteps', cur, best, quartic,
                                          cubic)} :
            \E proj \in {RMul(B, B_inv)} :
            \E hessian_proj \in {RAdd(RMul(RMul(proj, H), proj),
                                      RMul(Num(1000), RSub(One, proj)))} :
            \E g \in {RMul(proj, interp.g)} :
            \E V \in {W \in EighResults : IsLowestEigvec(hessian_proj, g, W)} :
            \E qs \in {quadratic_step(g, hessian_proj, weights, tr, V)} :
            \E pred \in {PESPoint(RAdd(interp.q, qs.dq),
                                  RAdd(interp.E, qs.dE), None)} :
            \E dq \in {RSub(pred.q, cur.q)} :
            \E upd \in {update_geom(geom, cur.q, RSub(pred.q, cur.q),
                                    B_inv)} :
            \E fut \in {PESPoint(upd.q, None, None)} :
            \E cv \in {converged(gradients, <<RSub(fut.q, cur.q)>>,
                                 qs.on_sphere, params)} :
                /\ current' = cur
                /\ evaluated' = Append(evaluated, cur)
                /\ hessian' = H
                /\ trust' = tr
                /\ interpolated' = interp
                /\ IF qs.exc # ""
                   THEN /\ pc' = "raised"
                        /\ exc' = qs.exc
                        /\ UNCHANGED <<debug, geom, best, previous, predicted,
                                       future>>
                   ELSE /\ predicted' = pred
                        /\ geom' = upd.geom
                        /\ future' = fut
                        /\ debug' = IF params.debug
                                    THEN Append(debug,
                                           [nstep |-> nsteps', trust |-> tr,
                                            hessian |-> H,
                                            gradients |-> gradients,
                                            coords |-> upd.geom,
                                            energy |-> energy,
                                            q |-> cur.q, dq |-> dq])
                                    ELSE debug
                        /\ IF cv.exc # ""
                           THEN /\ pc' = "raised"
                                /\ exc' = cv.exc
                                /\ UNCHANGED <<best, previous>>
                           ELSE IF cv.ret
                           THEN /\ pc' = "converged"
                                /\ exc' = ""
                                /\ UNCHANGED <<best, previous>>
                           ELSE /\ pc' = "yield_geom"
                                /\ exc' = ""
                                /\ previous' = cur
                                /\ best' = NewBest(nsteps', cur, best)

Next == Send \/ Exhaust \/ Iterate

Spec == Init /\ [][Next]_vars

\* --------------------------------------------------------- function harness

\* the numbers the harness draws arguments from
Ints == { Num(i) : i \in -MaxVal..MaxVal }

NonNegInts == { Num(i) : i \in 0..MaxVal }

Halves == { Rat(k, 2) : k \in (-2 * MaxVal - 1)..(2 * MaxVal + 1) }

\* every result a fit can give: no extremum, or an extremum at t of energy E
HarnessFits == {NoFit} \cup { Fit(t, E) : t \in Halves, E \in {Num(-1), Num(-2)} }

InitFn ==
    /\ Init
    /\ params.maxsteps = 0
    /\ ~params.debug
    /\ params.gradientmax = Zero

CallConverged ==
    /\ call.op = "none"
    /\ \E f \in Ints \cup {NaN}, st \in Ints \cup {NaN}, on_sphere \in BOOLEAN,
          grms \in NonNegInts, gmax \in NonNegInts,
          srms \in NonNegInts, smax \in NonNegInts :
         \E th \in {[gradientrms |-> grms, gradientmax |-> gmax,
                     steprms |-> srms, stepmax |-> smax]} :
           call' = [op |-> "converged", forces |-> <<f>>, step |-> <<st>>,
                    on_sphere |-> on_sphere, params |-> th,
                    ret |-> converged(<<f>>, <<st>>, on_sphere, th)]
    /\ UNCHANGED run

CallLinearSearch ==
    /\ call.op = "none"
    /\ \E E0 \in NonNegInts \cup {NaN}, E1 \in NonNegInts \cup {NaN},
          g0 \in {Num(-1), One}, g1 \in {Num(-1), One},
          quartic \in HarnessFits, cubic \in HarnessFits :
         call' = [op |-> "linear_search", E0 |-> E0, E1 |-> E1,
                  g0 |-> g0, g1 |-> g1, quartic |-> quartic, cubic |-> cubic,
                  ret |-> linear_search(E0, E1, g0, g1, quartic, cubic)]
    /\ UNCHANGED run

NextFn == CallConverged \/ CallLinearSearch

SpecFn == InitFn /\ [][NextFn]_vars

\* ------------------------------------------------------ claims on functions

\* C1: converged(gradient, step, on_sphere = false, thresholds) returns true
\* if and only if rms(gradient) < gradientrms, max|gradient| < gradientmax,
\* rms(step) < steprms and max|step| < stepmax all hold; one of the four
\* failing, by equality too, makes the result false.
C1_ConvergedIffAllFour ==
    (call.op = "converged" /\ ~call.on_sphere) =>
        /\ call.ret.exc = ""
        /\ call.ret.ret <=>
             /\ RLt(rms(call.forces), call.params.gradientrms)
             /\ RLt(max_abs(call.forces), call.params.gradientmax)
             /\ RLt(rms(call.step), call.params.steprms)
             /\ RLt(max_abs(call.step), call.params.stepmax)

\* a call whose gradient RMS equals its threshold while the other three
\* criteria pass, and which returned false
C1_Witness ==
    /\ call.op = "converged"
    /\ ~call.on_sphere
    /\ rms(call.forces) = call.params.gradientrms
    /\ RLt(max_abs(call.forces), call.params.gradientmax)
    /\ RLt(rms(call.step), call.params.steprms)
    /\ RLt(max_abs(call.step), call.params.stepmax)
    /\ call.ret = [exc |-> "", ret |-> FALSE]

InRange(t, lo, hi) == t # None /\ RLe(lo, t) /\ RLe(t, hi)

\* C7: linear_search returns the quartic result exactly when the quartic fit
\* has an extremum at t in [-1, 2]; otherwise the cubic result exactly when
\* the cubic fit has an extremum at t in [0, 1]; otherwise (0, E0) when
\* E0 <= E1 and (1, E1) when E0 > E1.  The cubic fit plays no part when the
\* quartic one is accepted.
C7_LinearSearch ==
    call.op = "linear_search" =>
        LET q_ok == InRange(call.quartic.t, Num(-1), Num(2))
            c_ok == InRange(call.cubic.t, Zero, One)
            res == <<call.ret.t, call.ret.E>>
        IN  /\ q_ok => res = <<call.quartic.t, call.quartic.E>>
            /\ (~q_ok /\ c_ok) => res = <<call.cubic.t, call.cubic.E>>
            /\ (~q_ok /\ ~c_ok /\ RLe(call.E0, call.E1)) =>
                   res = <<Zero, call.E0>>
            /\ (~q_ok /\ ~c_ok /\ RGt(call.E0, call.E1)) =>
                   res = <<One, call.E1>>
            /\ call.ret.msg = "Quartic interpolation" <=> q_ok
            /\ call.ret.msg = "Cubic interpolation" <=> (~q_ok /\ c_ok)

\* both fits rejected (the quartic outside [-1, 2], the cubic outside
\* [0, 1]) on a tie of the energies: the new point (0, E0) is returned
C7_Witness ==
    /\ call.op = "linear_search"
    /\ call.quartic.t = Rat(5, 2)
    /\ call.cubic.t = Rat(3, 2)
    /\ call.E0 = One
    /\ call.E1 = One
    /\ call.ret.t = Zero
    /\ call.ret.E = One

\* C8: converged called with on_sphere = true returns false, whatever the
\* gradient, the step and the thresholds.
C8_OnSphereReturnsFalse ==
    (call.op = "converged" /\ call.on_sphere) =>
        call.ret = [exc |-> "", ret |-> FALSE]

\* -------------------------------------------------------- claims on the run

\* a call of the driver (send, then next) has been worked off
Returned == pc' # pc /\ pc = "yield"

\* the call built its current point (it got past line 56)
BuiltCurrent == evaluated' # evaluated

C2_State ==
    (pc = "yield_geom" /\ nsteps >= 1) =>
        /\ \E i \in 1..Len(evaluated) : evaluated[i] = best
        /\ \A i \in 1..Len(evaluated) : RLe(best.E, evaluated[i].E)
        /\ previous = evaluated[Len(evaluated)]

C2_Step ==
    (Returned /\ pc' = "yield_geom") =>
        /\ best' # best => (nsteps' = 1 \/ RLt(current'.E, best.E))
        /\ best' \in {best, current'}
        /\ previous' = current'

\* C2: after every call that returns Continue, best is a point evaluated in
\* this run whose energy is <= the energy of every point evaluated so far;
\* best is replaced only in the first call or by a strictly lower energy,
\* and previous is the point of the call just finished.
C2_BestIsLowest == []C2_State /\ [][C2_Step]_vars

\* the state part of C2 for runs in which every energy sent is a number
C2_StateOfNumbers ==
    (\A i \in 1..Len(evaluated) : IsFinite(evaluated[i].E)) => C2_State

\* C3: the trust radius is strictly positive in every reachable state of a
\* run started with a strictly positive trust radius.
C3_TrustPositive == RGt(trust, Zero)

\* C4, as stated: with maxsteps = 1, once one evaluation has been worked off
\* without convergence the outcome is Exhausted.
C4_ExhaustedAfterOneCall ==
    (params.maxsteps = 1 /\ nsteps = 1 /\ pc \in {"yield_geom", "exhausted"})
        => pc = "exhausted"

\* C4, amended: with maxsteps = 1 the first call computes a step and, unless
\* it fails or its evaluation meets the thresholds, returns Continue; the
\* run is Exhausted exactly when the second evaluation has been worked off,
\* with one point evaluated, and Converged is reached only in the first call
\* by an evaluation that meets the thresholds.
C4_ExhaustedOnSecondCall ==
    params.maxsteps = 1 =>
        /\ pc = "exhausted" <=> nsteps = 2
        /\ pc = "exhausted" => Len(evaluated) = 1
        /\ (nsteps = 1 /\ pc \notin {"yield", "raised"}) =>
               pc \in {"yield_geom", "converged"}
        /\ pc = "converged" =>
               /\ nsteps = 1
               /\ converged(gradients, <<RSub(future.q, current.q)>>, FALSE,
                            params).ret

\* a run with maxsteps = 1 and thresholds no evaluation meets, Exhausted by
\* its second evaluation
C4_Witness ==
    /\ params.maxsteps = 1
    /\ params.gradientrms = Zero
    /\ pc = "exhausted"
    /\ nsteps = 2
    /\ Len(evaluated) = 1

\* C5: the counter never passes maxsteps + 1, at most maxsteps iterations
\* are computed, a counter above maxsteps means the run is Exhausted, and
\* the call that takes the counter above maxsteps changes nothing else: not
\* the Hessian, the trust radius, best, previous, the geometry or the debug
\* records.
C5_Terminates ==
    [][/\ nsteps' <= params.maxsteps + 1
       /\ Len(evaluated') <= params.maxsteps
       /\ nsteps' > params.maxsteps => pc' = "exhausted"
       /\ (nsteps' # nsteps /\ nsteps' > params.maxsteps) =>
              UNCHANGED <<hessian, trust, best, previous, predicted,
                          interpolated, current, future, geom, debug,
                          evaluated>>]_vars

\* a run with a budget of two iterations, both computed and recorded, that
\* was Exhausted by its third evaluation
C5_Witness ==
    /\ pc = "exhausted"
    /\ params.maxsteps = 2
    /\ nsteps = 3
    /\ params.debug
    /\ Len(debug) = 2
    /\ Len(evaluated) = 2

\* every evaluation worked off so far was a finite energy and gradient
AllFinite(points) ==
    \A i \in 1..Len(points) : IsFinite(points[i].E) /\ IsFinite(points[i].g)

\* C6: update_hessian called with dq.dg = 0 or dq.H.dq = 0 ends the run with
\* a DegenerateUpdate failure and leaves no NaN or infinite entry in the
\* Hessian (stated for the runs whose evaluations are all finite numbers).
C6_DegenerateUpdateFails ==
    [][(BuiltCurrent /\ nsteps' > 1 /\ AllFinite(evaluated')) =>
          LET dq == RSub(current'.q, best.q)
              dg == RSub(current'.g, best.g)
          IN  (REq(RMul(dq, dg), Zero) \/
               REq(RMul(RMul(dq, hessian), dq), Zero)) =>
                  /\ pc' = "raised"
                  /\ exc' = "DegenerateUpdate"
                  /\ IsFinite(hessian')]_vars

\* the input of a call is not valid: a gradient of the wrong length, or an
\* energy or a gradient that is not a finite number
Invalid(e, g) ==
    \/ Len(g) # NDof
    \/ ~IsFinite(e)
    \/ \E i \in 1..Len(g) : ~IsFinite(g[i])

\* C9: a call given invalid input fails, and the iteration counter, the
\* Hessian, the trust radius and the best, previous, predicted and
\* interpolated points keep the values they had before the call (stated for
\* the calls within the step budget).
C9_InvalidInputRejected ==
    [][(Returned /\ nsteps < params.maxsteps /\ Invalid(energy, gradients)) =>
          /\ pc' = "raised"
          /\ UNCHANGED <<nsteps, hessian, trust, best, previous, predicted,
                         interpolated>>]_vars

\* C10: the first call leaves the Hessian and the trust radius alone and
\* interpolates nothing; every later call within the budget updates the
\* Hessian once from current - best, then the trust radius once from
\* current.E - previous.E and the predicted and interpolated points of the
\* call before, and its quadratic step is solved with the updated values.
C10_UpdateOrder ==
    [][BuiltCurrent =>
          /\ nsteps' = 1 =>
                 /\ hessian' = hessian
                 /\ trust' = trust
                 /\ interpolated' = current'
          /\ nsteps' > 1 =>
                 /\ hessian' = update_hessian(hessian,
                                              RSub(current'.q, best.q),
                                              RSub(current'.g, best.g))
                 /\ trust' = update_trust(trust,
                                          RSub(current'.E, previous.E),
                                          RSub(predicted.E, interpolated.E),
                                          RSub(predicted.q, interpolated.q))
          /\ predicted' # predicted =>
                 \E V \in EighResults :
                     LET qs == quadratic_step(interpolated'.g, hessian',
                                              weights, trust', V)
                     IN  /\ IsLowestEigvec(hessian', interpolated'.g, V)
                         /\ qs.exc = ""
                         /\ predicted' =
                                PESPoint(RAdd(interpolated'.q, qs.dq),
                                         RAdd(interpolated'.E, qs.dE), None)]_vars

\* a second call has returned Continue, having changed both the Hessian and
\* the trust radius
C10_Witness ==
    /\ nsteps = 2
    /\ pc = "yield_geom"
    /\ hessian # hessian_guess
    /\ trust # params.trust

====
